---- MODULE Spec2Model ----
(***************************************************************************)
(* Sales Insights API: the record fetch, the context formatter, the two    *)
(* analyzers (app/services/sales_analyzer.py and app/langchain_service.py) *)
(* and the two HTTP handlers of app/main.py.                               *)
(*                                                                         *)
(* Conventions of the model                                                *)
(*  - a Python str is a sequence of string fragments whose concatenation   *)
(*    is the str; a line break is always the fragment "\n" on its own and  *)
(*    leading/trailing blanks of a provider reply are fragments on their   *)
(*    own, a product name is such a sequence too; a character other than   *)
(*    the escapes \t \n \f \r is the fragment "U+XXXX" naming its code     *)
(*    point;                                                               *)
(*  - a datetime is the number of minutes since 2024-01-01 00:00 (seconds  *)
(*    are not printed by the formatter and are left out);                  *)
(*  - a Numeric(10, 2) amount is an integer number of cents;               *)
(*  - HTTPException(500) is the code's operational error, RuntimeError     *)
(*    its configuration error.                                             *)
(***************************************************************************)
EXTENDS Integers, Sequences, FiniteSets, TLC

VARIABLES db, credential, now, calls, sessions, nextSession

vars == <<db, credential, now, calls, sessions, nextSession>>

(***************************************************************************)
(* Bounds of the model.                                                    *)
(***************************************************************************)
MaxCalls == 2
MaxSales == 3

(***************************************************************************)
(* Text helpers.                                                           *)
(***************************************************************************)
Digit(d) == <<"0", "1", "2", "3", "4", "5", "6", "7", "8", "9">>[d + 1]

RECURSIVE Decimal(_)
Decimal(n) == IF n < 10 THEN <<Digit(n)>> ELSE Decimal(n \div 10) \o <<Digit(n % 10)>>

Pad2(n) == IF n < 10 THEN <<"0", Digit(n)>> ELSE Decimal(n)

\* f"{total_amount:.2f}" on an amount of cents
Fixed2(cents) == Decimal(cents \div 100) \o <<".">> \o Pad2(cents % 100)

IsLeap(y) == (y % 4 = 0 /\ y % 100 # 0) \/ y % 400 = 0
DaysInYear(y) == IF IsLeap(y) THEN 366 ELSE 365
DaysInMonth(y, m) ==
    IF m = 2 THEN (IF IsLeap(y) THEN 29 ELSE 28)
    ELSE IF m \in {4, 6, 9, 11} THEN 30 ELSE 31

RECURSIVE YearFrom(_, _)
YearFrom(y, d) == IF d < 0 THEN YearFrom(y - 1, d + DaysInYear(y - 1))
                  ELSE IF d < DaysInYear(y) THEN [year |-> y, doy |-> d]
                  ELSE YearFrom(y + 1, d - DaysInYear(y))

RECURSIVE MonthFrom(_, _, _)
MonthFrom(y, m, d) == IF d < DaysInMonth(y, m) THEN [month |-> m, day |-> d + 1]
                      ELSE MonthFrom(y, m + 1, d - DaysInMonth(y, m))

\* the calendar fields of a datetime given as minutes since 2024-01-01 00:00,
\* before it as well (\div rounds down and % is never negative)
Calendar(t) ==
    LET yd == YearFrom(2024, t \div 1440)
        md == MonthFrom(yd.year, 1, yd.doy)
    IN  [year |-> yd.year, month |-> md.month, day |-> md.day,
         hour |-> (t % 1440) \div 60, minute |-> t % 60]

\* sale_date.strftime('%d/%m/%Y %H:%M')
strftime(t) ==
    LET c == Calendar(t)
    IN  Pad2(c.day) \o <<"/">> \o Pad2(c.month) \o <<"/">> \o Decimal(c.year)
        \o <<" ">> \o Pad2(c.hour) \o <<":">> \o Pad2(c.minute)

\* the characters str.strip() removes: those for which str.isspace() holds
IsSpace(f) ==
    f \in {" ", "\t", "\n", "\f", "\r", "U+000B", "U+001C", "U+001D", "U+001E", "U+001F",
           "U+0085", "U+00A0", "U+1680", "U+2000", "U+2001", "U+2002", "U+2003",
           "U+2004", "U+2005", "U+2006", "U+2007", "U+2008", "U+2009", "U+200A",
           "U+2028", "U+2029", "U+202F", "U+205F", "U+3000"}

RECURSIVE lstrip(_)
lstrip(s) == IF s # <<>> /\ IsSpace(Head(s)) THEN lstrip(Tail(s)) ELSE s

RECURSIVE rstrip(_)
rstrip(s) == IF s # <<>> /\ IsSpace(s[Len(s)]) THEN rstrip(SubSeq(s, 1, Len(s) - 1)) ELSE s

\* response.strip()
strip(s) == rstrip(lstrip(s))

\* "\n".join(parts)
RECURSIVE Join(_, _)
Join(sep, parts) ==
    IF parts = <<>> THEN <<>>
    ELSE IF Len(parts) = 1 THEN Head(parts)
    ELSE Head(parts) \o sep \o Join(sep, Tail(parts))

(***************************************************************************)
(* The context formatter.                                                  *)
(***************************************************************************)
NoSalesInPeriod == <<"Nenhuma venda registrada no período solicitado.">>
NoSalesLastWeek == <<"Nenhuma venda registrada na última semana.">>

\* one f-string of the formatter: a row is <<sale, product>>; product.name is
\* put in as it is stored
FormatLine(row) ==
    <<"- ">> \o row[2].name \o <<": ">> \o Decimal(row[1].quantity) \o <<" unid. (R$">>
    \o Fixed2(row[1].total_amount) \o <<") em ">> \o strftime(row[1].sale_date)

FormatLines(sales_data) == [i \in 1..Len(sales_data) |-> FormatLine(sales_data[i])]

\* services/sales_analyzer.py
_format_context(sales_data) ==
    IF sales_data = <<>> THEN NoSalesInPeriod
    ELSE Join(<<"\n">>, FormatLines(sales_data))

\* langchain_service.py
_format_sales_context(sales_data) ==
    IF sales_data = <<>> THEN NoSalesLastWeek
    ELSE Join(<<"\n">>, FormatLines(sales_data))

(***************************************************************************)
(* The storage queries.  A database is [products, sales]; the result of a  *)
(* query is a sequence, and rows that tie on the ORDER BY key come in any  *)
(* order the engine likes.                                                 *)
(***************************************************************************)
Min(a, b) == IF a < b THEN a ELSE b

\* select(Sale, Product).join(Product, Sale.product_id == Product.id)
InnerJoin(d) ==
    {r \in d.sales \X d.products : r[1].product_id = r[2].id}

\* datetime.now() - timedelta(days=days)
WindowStart(t, days) == t - days * 1440

\* (a variant that leaves out the sale made exactly at start_date)
InWindowStrict(sale, start_date) == sale.sale_date > start_date

\* .where(Sale.sale_date >= start_date)
InWindow(sale, start_date) == sale.sale_date >= start_date

\* .order_by(Sale.sale_date.desc()): all the orders of the finite set of rows
\* that are non-increasing by sale_date
OrderBySaleDate(rows) ==
    {q \in [1..Cardinality(rows) -> rows] :
        /\ \A i, j \in 1..Cardinality(rows) : i # j => q[i] # q[j]
        /\ \A i, j \in 1..Cardinality(rows) :
                i < j => q[i][1].sale_date >= q[j][1].sale_date}

\* the possible results of the recent-sales query (result.all())
RecentSales(d, start_date) ==
    OrderBySaleDate({r \in InnerJoin(d) : InWindow(r[1], start_date)})

RECURSIVE SumQuantity(_)
SumQuantity(rows) ==
    IF rows = {} THEN 0
    ELSE LET r == CHOOSE x \in rows : TRUE IN r[1].quantity + SumQuantity(rows \ {r})

RECURSIVE SumAmount(_)
SumAmount(rows) ==
    IF rows = {} THEN 0
    ELSE LET r == CHOOSE x \in rows : TRUE IN r[1].total_amount + SumAmount(rows \ {r})

\* group_by(Product.name) with func.sum(Sale.quantity), func.sum(Sale.total_amount)
GroupByName(rows) ==
    {[name |-> n,
      total_quantity |-> SumQuantity({r \in rows : r[2].name = n}),
      total_revenue |-> SumAmount({r \in rows : r[2].name = n})] :
        n \in {r[2].name : r \in rows}}

\* (a variant that forgets the LIMIT clause)
NoLimit(q, limit) == q

\* .limit(limit): SQLite, the engine of database.py, reads a negative LIMIT
\* as no limit
Limit(q, limit) == IF limit < 0 THEN q ELSE SubSeq(q, 1, Min(limit, Len(q)))

\* .order_by(func.sum(Sale.quantity).desc()): all the orders of the finite set
\* of groups that are non-increasing by the summed quantity
OrderGroups(groups) ==
    {q \in [1..Cardinality(groups) -> groups] :
        /\ \A i, j \in 1..Cardinality(groups) : i # j => q[i] # q[j]
        /\ \A i, j \in 1..Cardinality(groups) :
                i < j => q[i].total_quantity >= q[j].total_quantity}

\* the possible results of the aggregate query of top_products
TopProductsQuery(d, start_date, limit) ==
    {Limit(q, limit) :
        q \in OrderGroups(GroupByName({r \in InnerJoin(d) : InWindow(r[1], start_date)}))}

\* the list comprehension of top_products: revenue stays in cents
TopProductsItems(products) ==
    [i \in 1..Len(products) |->
        [product |-> products[i].name,
         total_sold |-> products[i].total_quantity,
         revenue |-> products[i].total_revenue]]

(***************************************************************************)
(* The data the model runs on.                                             *)
(***************************************************************************)
\* day d of January 2024, hh:mm (day 0 is 2023-12-31)
T(d, hh, mm) == (d - 1) * 1440 + hh * 60 + mm

\* Product.name is a String(100) with no other constraint: product 4 has a
\* name of two lines
Products ==
    {[id |-> 1, name |-> <<"Widget">>], [id |-> 2, name |-> <<"B">>],
     [id |-> 3, name |-> <<"Widget">>], [id |-> 4, name |-> <<"Mini", "\n", "Widget">>]}

\* sale 4 names a product that does not exist (SQLite does not enforce foreign
\* keys unless asked to); sales 1 and 2 lie exactly one day and seven days
\* before the first clock value; sale 6 was made on 2023-12-31 at 23:59
SaleCandidates ==
    {[id |-> 1, product_id |-> 1, quantity |-> 10, total_amount |-> 10000, sale_date |-> T(19, 12, 0)],
     [id |-> 2, product_id |-> 2, quantity |-> 5, total_amount |-> 5000, sale_date |-> T(13, 12, 0)],
     [id |-> 3, product_id |-> 1, quantity |-> 3, total_amount |-> 3000, sale_date |-> T(15, 10, 30)],
     [id |-> 4, product_id |-> 9, quantity |-> 1, total_amount |-> 5, sale_date |-> T(20, 9, 5)],
     [id |-> 5, product_id |-> 2, quantity |-> 5, total_amount |-> 5000, sale_date |-> T(15, 10, 30)],
     [id |-> 6, product_id |-> 3, quantity |-> 2, total_amount |-> 1999, sale_date |-> T(0, 23, 59)],
     [id |-> 7, product_id |-> 4, quantity |-> 1, total_amount |-> 500, sale_date |-> T(18, 8, 0)]}

Databases ==
    {[products |-> Products, sales |-> S] :
        S \in {X \in SUBSET SaleCandidates : Cardinality(X) <= MaxSales}}

ClockValues == {T(20, 12, 0), T(20, 12, 1)}

Questions == {[text |-> "hi", length |-> 2], [text |-> "What sold best?", length |-> 15]}
DirectDays == {1, 30}
DirectLimits == {1, 2}
RequestDays == {0, 7}
RequestLimits == {1, 21}

\* what the text-generation provider may answer; "failed" is a provider error
ProviderReplies ==
    {<<"Widget">>, <<" ", "\n", "Widget", " ", "B", "\n", " ">>, <<"\f", "Widget", "U+00A0">>}

(***************************************************************************)
(* Calls.  A call is one invocation of an entry point: a method of an      *)
(* analyzer or the handler of a route called directly (via = "direct"), or *)
(* a request to a route of main.py (via = "http").  Between two awaits a   *)
(* coroutine runs without interruption, so a call has one step per await:  *)
(* the query (pc = "query"), the close of the session on leaving the       *)
(* `async with` or the dependency (pc = "close"), the provider (pc =       *)
(* "llm").                                                                 *)
(***************************************************************************)
CallIds == 1..MaxCalls

Idle ==
    [kind |-> "none", via |-> "none", pc |-> "idle",
     question |-> [text |-> "", length |-> 0], days |-> 0, limit |-> 0,
     clock |-> 0, start_date |-> 0, session |-> 0, fetch |-> "none", rows |-> <<>>,
     context |-> <<>>, provider |-> "none", reply |-> <<>>,
     exc |-> "none", status |-> 0, detail |-> "",
     returned |-> FALSE, answer |-> <<>>, has_context |-> FALSE,
     context_used |-> <<>>, items |-> <<>>]

\* raise exc (an HTTPException carries status and detail)
Raise(call, exc, status, detail) ==
    [call EXCEPT !.pc = "done", !.exc = exc, !.status = status, !.detail = detail]

\* an HTTP response without a body of interest
Respond(call, status, detail) ==
    [call EXCEPT !.pc = "done", !.status = status, !.detail = detail]

\* SessionLocal(): a new session object
NewSession(n) == n + 1

\* (a variant that closes the session on the success path only)
ReleaseKeepOnError(open, call, ok) == IF ok THEN open \ {call.session} ELSE open

\* async with SessionLocal() as session: ... left by return or by exception
Release(open, call, ok) == open \ {call.session}

(***************************************************************************)
(* services/sales_analyzer.py                                              *)
(***************************************************************************)
\* SalesAnalyzer._initialize_llm: the credential check of the constructor
_initialize_llm(key) == IF ~key THEN "RuntimeError" ELSE "ok"

\* the except clauses of analyze_sales applied to an exception raised inside
\* its try block: HTTPException passes, anything else is re-signaled
Reclassify(call, exc, status, detail) ==
    IF exc = "HTTPException" THEN Raise(call, exc, status, detail)
    ELSE Raise(call, "HTTPException", 500, "Erro ao gerar insights de vendas")

\* the dictionary returned by analyze_sales
ReturnInsight(call, text) ==
    [call EXCEPT !.pc = "done", !.returned = TRUE, !.answer = text,
                 !.has_context = TRUE, !.context_used = call.context]

\* SalesAnalyzer() then analyze_sales(question, days), up to the await of
\* session.execute in _get_sales_data
AnalyzeSalesBegin(c, q, days) ==
    /\ calls[c].pc = "idle"
    /\ LET call == [calls[c] EXCEPT !.kind = "analyze_sales", !.via = "direct",
                                    !.question = q, !.days = days]
       IN  IF _initialize_llm(credential) # "ok"
           THEN /\ calls' = [calls EXCEPT ![c] =
                        Raise(call, "RuntimeError", 0, "OpenAI API key not configured")]
                /\ UNCHANGED <<sessions, nextSession>>
           ELSE /\ calls' = [calls EXCEPT ![c] =
                        [call EXCEPT !.pc = "query",
                                     !.session = NewSession(nextSession),
                                     !.clock = now,
                                     !.start_date = WindowStart(now, days)]]
                /\ sessions' = sessions \cup {NewSession(nextSession)}
                /\ nextSession' = nextSession + 1
    /\ UNCHANGED <<db, credential, now>>

\* session.execute returns (result.all() is kept) or raises (the except
\* clause of _get_sales_data raises its HTTPException); either way the exit
\* of `async with` awaits the close of the session
AnalyzeSalesFetched(c) ==
    /\ calls[c].pc = "query"
    /\ calls[c].kind = "analyze_sales"
    /\ \/ \E rows \in RecentSales(db, calls[c].start_date) :
            calls' = [calls EXCEPT ![c] =
                [@ EXCEPT !.pc = "close", !.fetch = "ok", !.rows = rows]]
       \/ calls' = [calls EXCEPT ![c] = [@ EXCEPT !.pc = "close", !.fetch = "failed"]]
    /\ UNCHANGED <<db, credential, now, sessions, nextSession>>

\* the session is closed; _get_sales_data returns the rows and analyze_sales
\* formats the context and awaits chain.arun, or the HTTPException of
\* _get_sales_data reaches the except clauses of analyze_sales
AnalyzeSalesClosed(c) ==
    /\ calls[c].pc = "close"
    /\ calls[c].kind = "analyze_sales"
    /\ sessions' = Release(sessions, calls[c], calls[c].fetch = "ok")
    /\ IF calls[c].fetch = "ok"
       THEN calls' = [calls EXCEPT ![c] =
                [@ EXCEPT !.pc = "llm", !.context = _format_context(calls[c].rows),
                          !.provider = "invoked"]]
       ELSE calls' = [calls EXCEPT ![c] =
                Reclassify(@, "HTTPException", 500,
                           "Erro ao acessar dados históricos de vendas")]
    /\ UNCHANGED <<db, credential, now, nextSession>>

\* chain.arun returns or raises
AnalyzeSalesAnswered(c) ==
    /\ calls[c].pc = "llm"
    /\ calls[c].kind = "analyze_sales"
    /\ \/ \E reply \in ProviderReplies :
            calls' = [calls EXCEPT ![c] =
                ReturnInsight([@ EXCEPT !.provider = "ok", !.reply = reply], strip(reply))]
       \/ calls' = [calls EXCEPT ![c] =
                Reclassify([@ EXCEPT !.provider = "failed"], "ProviderError", 0, "")]
    /\ UNCHANGED <<db, credential, now, sessions, nextSession>>

(***************************************************************************)
(* langchain_service.py                                                    *)
(***************************************************************************)
Apology == <<"Desculpe, ocorreu um erro ao processar sua solicitação.">>

\* SalesAnalyzer.__init__: ChatOpenAI(...) is built without an explicit key
\* and takes it from the environment, refusing to be built without one
LangchainInit(key) == IF ~key THEN "ValidationError" ELSE "ok"

\* the parameters of analyze_sales_question after self
analyze_sales_question_params == <<"question">>

\* a call with positional arguments binds only when there are parameters for them
Binds(params, args) == Len(args) <= Len(params)

\* a value returned by analyze_sales_question, seen by the caller: main.py
\* (sales_insights) answers {"answer": response}
ReturnAnswer(call, text) ==
    [call EXCEPT !.pc = "done", !.returned = TRUE, !.answer = text,
                 !.status = IF call.via = "http" THEN 200 ELSE 0]

\* analyze_sales_question up to the await of session.execute in
\* _get_recent_sales_data(), which is called without a day-count (days = 7)
QuestionStart(call) ==
    [call EXCEPT !.pc = "query", !.session = NewSession(nextSession),
                 !.clock = now, !.start_date = WindowStart(now, 7)]

\* the except clause of analyze_sales_question
QuestionFailure(call) == ReturnAnswer(call, Apology)

\* SalesAnalyzer() then analyze_sales_question(question)
AnalyzeQuestionBegin(c, q) ==
    /\ calls[c].pc = "idle"
    /\ LET call == [calls[c] EXCEPT !.kind = "analyze_sales_question", !.via = "direct",
                                    !.question = q, !.days = 7]
       IN  IF LangchainInit(credential) # "ok"
           THEN /\ calls' = [calls EXCEPT ![c] =
                        Raise(call, LangchainInit(credential), 0, "")]
                /\ UNCHANGED <<sessions, nextSession>>
           ELSE /\ calls' = [calls EXCEPT ![c] = QuestionStart(call)]
                /\ sessions' = sessions \cup {NewSession(nextSession)}
                /\ nextSession' = nextSession + 1
    /\ UNCHANGED <<db, credential, now>>

\* session.execute returns or raises (the except clause of
\* _get_recent_sales_data re-raises); the exit of `async with` awaits the
\* close of the session
AnalyzeQuestionFetched(c) ==
    /\ calls[c].pc = "query"
    /\ calls[c].kind = "analyze_sales_question"
    /\ \/ \E rows \in RecentSales(db, calls[c].start_date) :
            calls' = [calls EXCEPT ![c] =
                [@ EXCEPT !.pc = "close", !.fetch = "ok", !.rows = rows]]
       \/ calls' = [calls EXCEPT ![c] = [@ EXCEPT !.pc = "close", !.fetch = "failed"]]
    /\ UNCHANGED <<db, credential, now, sessions, nextSession>>

\* the session is closed; the context is formatted and chain.arun awaited,
\* or the storage error reaches the except clause of analyze_sales_question
AnalyzeQuestionClosed(c) ==
    /\ calls[c].pc = "close"
    /\ calls[c].kind = "analyze_sales_question"
    /\ sessions' = Release(sessions, calls[c], calls[c].fetch = "ok")
    /\ IF calls[c].fetch = "ok"
       THEN calls' = [calls EXCEPT ![c] =
                [@ EXCEPT !.pc = "llm", !.context = _format_sales_context(calls[c].rows),
                          !.provider = "invoked"]]
       ELSE calls' = [calls EXCEPT ![c] = QuestionFailure(@)]
    /\ UNCHANGED <<db, credential, now, nextSession>>

\* chain.arun returns or raises
AnalyzeQuestionAnswered(c) ==
    /\ calls[c].pc = "llm"
    /\ calls[c].kind = "analyze_sales_question"
    /\ \/ \E reply \in ProviderReplies :
            calls' = [calls EXCEPT ![c] =
                ReturnAnswer([@ EXCEPT !.provider = "ok", !.reply = reply], strip(reply))]
       \/ calls' = [calls EXCEPT ![c] = QuestionFailure([@ EXCEPT !.provider = "failed"])]
    /\ UNCHANGED <<db, credential, now, sessions, nextSession>>

(***************************************************************************)
(* main.py                                                                 *)
(***************************************************************************)
\* the names bound at module level in main.py
MainGlobals ==
    {"FastAPI", "Query", "HTTPException", "Depends", "CORSMiddleware", "AsyncSession",
     "select", "func", "datetime", "timedelta", "List", "Dict", "Optional", "logging",
     "engine", "SessionLocal", "models", "SalesAnalyzer", "BaseModel", "logger", "app",
     "TopProductResponse", "SalesInsightResponse", "get_db", "startup", "shutdown",
     "sales_insights", "top_products", "health_check"}

\* get_db of main.py enters `async with async_session()`
main_get_db == IF "async_session" \in MainGlobals THEN "ok" ELSE "NameError"

\* get_db of database.py enters `async with SessionLocal()`
database_get_db == "ok"

\* Query(..., min_length=3, max_length=200) and Query(7, gt=0, le=365)
ValidInsightsRequest(q, days) ==
    /\ q.length >= 3 /\ q.length <= 200
    /\ days > 0 /\ days <= 365

\* Query(30, gt=0, le=365) and Query(5, gt=0, le=20)
ValidTopRequest(days, limit) ==
    /\ days > 0 /\ days <= 365
    /\ limit > 0 /\ limit <= 20

\* GET /sales-insights: the analyzer is the one of langchain_service.py, and
\* it is called with two positional arguments
SalesInsightsRequest(c, q, days) ==
    /\ calls[c].pc = "idle"
    /\ LET call == [calls[c] EXCEPT !.kind = "analyze_sales_question", !.via = "http",
                                    !.question = q, !.days = days]
       IN  IF ~ValidInsightsRequest(q, days)
           THEN /\ calls' = [calls EXCEPT ![c] = Respond(call, 422, "validation error")]
                /\ UNCHANGED <<sessions, nextSession>>
           ELSE IF LangchainInit(credential) # "ok"
           THEN /\ calls' = [calls EXCEPT ![c] =
                        Raise(call, LangchainInit(credential), 500, "Error processing your question")]
                /\ UNCHANGED <<sessions, nextSession>>
           ELSE IF ~Binds(analyze_sales_question_params, <<q, days>>)
           THEN /\ calls' = [calls EXCEPT ![c] =
                        Raise(call, "TypeError", 500, "Error processing your question")]
                /\ UNCHANGED <<sessions, nextSession>>
           ELSE /\ calls' = [calls EXCEPT ![c] = QuestionStart(call)]
                /\ sessions' = sessions \cup {NewSession(nextSession)}
                /\ nextSession' = nextSession + 1
    /\ UNCHANGED <<db, credential, now>>

\* the outcome of the handler is known and the session of get_db still open
Closing(call) == [call EXCEPT !.pc = "close"]

\* top_products up to the await of db.execute, with the session of get_db
TopProductsStart(call, days, limit) ==
    [call EXCEPT !.pc = "query", !.days = days, !.limit = limit,
                 !.session = NewSession(nextSession),
                 !.clock = now, !.start_date = WindowStart(now, days)]

\* GET /top-products: Depends(get_db) is resolved first, to get_db of main.py,
\* and the query parameters are validated after it; a request refused with
\* 422 still has the session of its dependency closed
TopProductsRequest(c, days, limit) ==
    /\ calls[c].pc = "idle"
    /\ LET call == [calls[c] EXCEPT !.kind = "top_products", !.via = "http",
                                    !.days = days, !.limit = limit]
       IN  IF main_get_db # "ok"
           THEN /\ calls' = [calls EXCEPT ![c] =
                        Raise(call, main_get_db, 500, "Internal Server Error")]
                /\ UNCHANGED <<sessions, nextSession>>
           ELSE /\ calls' = [calls EXCEPT ![c] =
                        IF ~ValidTopRequest(days, limit)
                        THEN Closing(Respond([call EXCEPT !.session = NewSession(nextSession)],
                                             422, "validation error"))
                        ELSE TopProductsStart(call, days, limit)]
                /\ sessions' = sessions \cup {NewSession(nextSession)}
                /\ nextSession' = nextSession + 1
    /\ UNCHANGED <<db, credential, now>>

\* top_products(days, limit, db) called with a session of get_db of database.py
TopProductsCall(c, days, limit) ==
    /\ calls[c].pc = "idle"
    /\ database_get_db = "ok"
    /\ calls' = [calls EXCEPT ![c] =
            TopProductsStart([@ EXCEPT !.kind = "top_products", !.via = "direct"], days, limit)]
    /\ sessions' = sessions \cup {NewSession(nextSession)}
    /\ nextSession' = nextSession + 1
    /\ UNCHANGED <<db, credential, now>>

\* the list returned by top_products, answered with status 200 to a request
ReturnItems(call, items) ==
    [call EXCEPT !.pc = "done", !.returned = TRUE, !.items = items,
                 !.status = IF call.via = "http" THEN 200 ELSE 0]

\* (a variant that answers a failed query with an empty list)
TopProductsFailureEmpty(call) == ReturnItems(call, <<>>)

\* the except clause of top_products
TopProductsFailure(call) == Raise(call, "HTTPException", 500, "Error fetching top products")

\* db.execute returns or raises and top_products returns its list or raises
\* its HTTPException, the session of get_db still open
TopProductsExecuted(c) ==
    /\ calls[c].pc = "query"
    /\ calls[c].kind = "top_products"
    /\ \/ \E products \in TopProductsQuery(db, calls[c].start_date, calls[c].limit) :
            calls' = [calls EXCEPT ![c] =
                Closing(ReturnItems([@ EXCEPT !.fetch = "ok"], TopProductsItems(products)))]
       \/ calls' = [calls EXCEPT ![c] =
                Closing(TopProductsFailure([@ EXCEPT !.fetch = "failed"]))]
    /\ UNCHANGED <<db, credential, now, sessions, nextSession>>

\* get_db resumes after the handler: session.rollback() when the handler
\* raised (nothing was written, so it changes nothing), then session.close()
TopProductsClosed(c) ==
    /\ calls[c].pc = "close"
    /\ calls[c].kind = "top_products"
    /\ sessions' = Release(sessions, calls[c], calls[c].exc = "none")
    /\ calls' = [calls EXCEPT ![c] = [@ EXCEPT !.pc = "done"]]
    /\ UNCHANGED <<db, credential, now, nextSession>>

\* the clock moves on
Tick ==
    /\ \E t \in ClockValues : t > now /\ now' = t
    /\ UNCHANGED <<db, credential, calls, sessions, nextSession>>

(***************************************************************************)
(* The specifications.                                                     *)
(*                                                                         *)
(* Spec: up to MaxCalls calls run concurrently, interleaved at their       *)
(* awaits, on one of two small databases.                                  *)
(* SpecData: one call at a time, on every database of at most MaxSales     *)
(* sales, with every input of the sets above and a clock that moves.       *)
(***************************************************************************)
GoodQuestion == [text |-> "What sold best?", length |-> 15]

SmallDatabases ==
    {[products |-> Products, sales |-> S] :
        S \in {{}, {s \in SaleCandidates : s.id \in {1, 5}}}}

Init ==
    /\ db \in SmallDatabases
    /\ credential \in BOOLEAN
    /\ now = T(20, 12, 0)
    /\ calls = [c \in CallIds |-> Idle]
    /\ sessions = {}
    /\ nextSession = 0

Next ==
    \/ \E c \in CallIds : AnalyzeSalesBegin(c, GoodQuestion, 30)
    \/ \E c \in CallIds : AnalyzeSalesFetched(c)
    \/ \E c \in CallIds : AnalyzeSalesClosed(c)
    \/ \E c \in CallIds : AnalyzeSalesAnswered(c)
    \/ \E c \in CallIds : AnalyzeQuestionBegin(c, GoodQuestion)
    \/ \E c \in CallIds : AnalyzeQuestionFetched(c)
    \/ \E c \in CallIds : AnalyzeQuestionClosed(c)
    \/ \E c \in CallIds : AnalyzeQuestionAnswered(c)
    \/ \E c \in CallIds : SalesInsightsRequest(c, GoodQuestion, 7)
    \/ \E c \in CallIds : TopProductsRequest(c, 30, 1)
    \/ \E c \in CallIds : TopProductsCall(c, 30, 1)
    \/ \E c \in CallIds : TopProductsExecuted(c)
    \/ \E c \in CallIds : TopProductsClosed(c)

Spec == Init /\ [][Next]_vars

InitData ==
    /\ db \in Databases
    /\ credential \in BOOLEAN
    /\ now = T(20, 12, 0)
    /\ calls = [c \in CallIds |-> Idle]
    /\ sessions = {}
    /\ nextSession = 0

NextData ==
    \/ \E q \in Questions, days \in DirectDays : AnalyzeSalesBegin(1, q, days)
    \/ AnalyzeSalesFetched(1)
    \/ AnalyzeSalesClosed(1)
    \/ AnalyzeSalesAnswered(1)
    \/ \E q \in Questions : AnalyzeQuestionBegin(1, q)
    \/ AnalyzeQuestionFetched(1)
    \/ AnalyzeQuestionClosed(1)
    \/ AnalyzeQuestionAnswered(1)
    \/ \E q \in Questions, days \in RequestDays : SalesInsightsRequest(1, q, days)
    \/ \E days \in RequestDays, limit \in RequestLimits : TopProductsRequest(1, days, limit)
    \/ \E days \in DirectDays, limit \in DirectLimits : TopProductsCall(1, days, limit)
    \/ TopProductsExecuted(1)
    \/ TopProductsClosed(1)
    \/ Tick

SpecData == InitData /\ [][NextData]_vars

TypeOK ==
    /\ db \in Databases
    /\ credential \in BOOLEAN
    /\ now \in ClockValues
    /\ \A c \in CallIds : calls[c].pc \in {"idle", "query", "close", "llm", "done"}
    /\ sessions \subseteq 1..nextSession

(***************************************************************************)
(* Properties.                                                             *)
(***************************************************************************)
IsAnalyze(call) == call.kind \in {"analyze_sales", "analyze_sales_question"}

Failed(call) == call.fetch = "failed" \/ call.provider = "failed"

\* C1: a call of analyze in which the fetch or the provider failed never
\* returns a value; it raises the operational error (HTTPException 500): the
\* accessor's own error unchanged for a failed fetch, the generic "insight
\* generation failed" error for a failure that was not classified.
C1_FailedAnalyzeRaisesOperationalError ==
    \A c \in CallIds :
        (IsAnalyze(calls[c]) /\ calls[c].via = "direct" /\ calls[c].pc = "done"
            /\ Failed(calls[c]))
        => /\ ~calls[c].returned
           /\ calls[c].exc = "HTTPException"
           /\ calls[c].status = 500
           /\ calls[c].fetch = "failed"
                => calls[c].detail = "Erro ao acessar dados históricos de vendas"
           /\ calls[c].provider = "failed"
                => calls[c].detail = "Erro ao gerar insights de vendas"

\* C2: when the storage engine fails inside the record fetch of an analyze
\* call, the call ends with the operational error and the provider was not
\* invoked in that call; a provider invocation follows a successful fetch.
C2_FetchFailureSurfacesErrorWithoutProvider ==
    \A c \in CallIds :
        IsAnalyze(calls[c]) =>
            /\ calls[c].provider # "none" => calls[c].fetch = "ok"
            /\ (calls[c].fetch = "failed" /\ calls[c].pc = "done")
                => /\ calls[c].provider = "none"
                   /\ ~calls[c].returned
                   /\ calls[c].exc = "HTTPException"
                   /\ calls[c].status = 500

\* the rows the fetch of a window has to return, as a set
ExpectedRows(d, clock, days) ==
    {r \in d.sales \X d.products :
        r[1].product_id = r[2].id /\ r[1].sale_date >= clock - days * 1440}

\* C3: a valid request to the question-answering endpoint, with the credential
\* present and no failure of storage or provider, is answered 200 with the
\* provider's text trimmed as answer and the formatted context of the sales
\* of the requested window as context_used.
C3_InsightsEndpointAnswers ==
    \A c \in CallIds :
        (calls[c].kind = "analyze_sales_question" /\ calls[c].via = "http"
            /\ calls[c].pc = "done" /\ credential
            /\ ValidInsightsRequest(calls[c].question, calls[c].days)
            /\ ~Failed(calls[c]))
        => /\ calls[c].status = 200
           /\ calls[c].returned
           /\ calls[c].answer = strip(calls[c].reply)
           /\ calls[c].has_context
           /\ calls[c].context_used = calls[c].context
           /\ {calls[c].rows[i] : i \in 1..Len(calls[c].rows)}
                = ExpectedRows(db, calls[c].clock, calls[c].days)

\* C4: without the credential no analyzer issues a storage query or a
\* provider call, and no request is accepted and then failed because the
\* credential is missing (the failure belongs to startup).
C4_MissingCredentialFailsBeforeRequests ==
    ~credential =>
        \A c \in CallIds :
            /\ IsAnalyze(calls[c])
                => calls[c].session = 0 /\ calls[c].provider = "none"
            /\ calls[c].via = "http"
                => ~(calls[c].pc = "done" /\ calls[c].status = 500
                     /\ calls[c].exc \in {"RuntimeError", "ValidationError"})

\* C5: every call has a session of its own, and a call that has left its
\* query (by return or by exception) holds no open session; in particular a
\* terminated call holds none.
C5_SessionsScopedAndReleased ==
    /\ \A c \in CallIds :
        calls[c].pc \in {"llm", "done"} => calls[c].session \notin sessions
    /\ \A c1, c2 \in CallIds :
        (c1 # c2 /\ calls[c1].session # 0 /\ calls[c2].session # 0)
            => calls[c1].session # calls[c2].session
    /\ sessions \subseteq
            {calls[c].session : c \in {x \in CallIds : calls[x].pc \in {"query", "close"}}}

\* a call ended by a storage failure whose session is closed while another
\* call has its rows and is closing its own, still open, session
C5_Witness ==
    \E c1, c2 \in CallIds :
        /\ calls[c1].pc = "done" /\ calls[c1].fetch = "failed" /\ calls[c1].session # 0
        /\ calls[c2].pc = "close" /\ calls[c2].fetch = "ok"
        /\ calls[c2].session \in sessions
        /\ IsAnalyze(calls[c1]) /\ IsAnalyze(calls[c2])

\* C6: the record fetch returns exactly the (sale, product) pairs with
\* sale_date >= now - days whose product exists, each once, in an order
\* that is non-increasing by sale_date.
C6_FetchWindowJoinOrder ==
    \A c \in CallIds :
        (IsAnalyze(calls[c]) /\ calls[c].via = "direct" /\ calls[c].fetch = "ok")
        => LET rows == calls[c].rows
               want == ExpectedRows(db, calls[c].clock, calls[c].days)
           IN  /\ {rows[i] : i \in 1..Len(rows)} = want
               /\ Len(rows) = Cardinality(want)
               /\ \A i \in 1..Len(rows) - 1 :
                    rows[i][1].sale_date >= rows[i + 1][1].sale_date

\* two rows fetched, the older one exactly on the edge of the window, from a
\* database that also holds a sale without product
C6_Witness ==
    \E c \in CallIds :
        /\ IsAnalyze(calls[c]) /\ calls[c].fetch = "ok"
        /\ Len(calls[c].rows) = 2
        /\ calls[c].rows[2][1].sale_date = calls[c].clock - calls[c].days * 1440
        /\ \E s \in db.sales : \A p \in db.products : p.id # s.product_id

\* the lines of a text: the runs of fragments between line breaks
RECURSIVE SplitLines(_)
SplitLines(text) ==
    LET n == Len(text)
        breaks == {i \in 1..n : text[i] = "\n"}
    IN  IF breaks = {} THEN <<text>>
        ELSE LET b == CHOOSE i \in breaks : \A j \in breaks : i <= j
             IN  <<SubSeq(text, 1, b - 1)>> \o SplitLines(SubSeq(text, b + 1, n))

Sentinel(call) == IF call.kind = "analyze_sales" THEN NoSalesInPeriod ELSE NoSalesLastWeek

Widget3 ==
    <<"- ", "Widget", ": ", "3", " unid. (R$", "3", "0", ".", "0", "0", ") em ",
      "1", "5", "/", "0", "1", "/", "2", "0", "2", "4", " ", "1", "0", ":", "3", "0">>

\* C7: the context is the "no data" sentinel exactly when no row was fetched;
\* otherwise it has one line per row, the i-th line giving product name,
\* quantity, amount with two decimals and dd/mm/yyyy hh:mm of the i-th row,
\* with single line breaks between the lines and none at the end.
C7_FormatContext ==
    \A c \in CallIds :
        (IsAnalyze(calls[c]) /\ calls[c].fetch = "ok" /\ calls[c].pc \in {"llm", "done"})
        => LET rows == calls[c].rows
               text == calls[c].context
               lines == SplitLines(text)
           IN  /\ (rows = <<>>) <=> (text = Sentinel(calls[c]))
               /\ rows # <<>> =>
                    /\ Len(lines) = Len(rows)
                    /\ text[Len(text)] # "\n"
                    /\ \A i \in 1..Len(rows) :
                        /\ lines[i] # <<>>
                        /\ lines[i] = FormatLine(rows[i])
                        /\ rows[i][1].id = 3 => lines[i] = Widget3

\* C8: a successful result of the top-products query has at most `limit`
\* rows, with total_sold non-increasing along the sequence.
C8_TopProductsBoundedAndOrdered ==
    \A c \in CallIds :
        (calls[c].kind = "top_products" /\ calls[c].returned)
        => /\ Len(calls[c].items) <= calls[c].limit
           /\ \A i \in 1..Len(calls[c].items) - 1 :
                calls[c].items[i].total_sold >= calls[c].items[i + 1].total_sold

\* two products returned under limit 2, the first one sold more
C8_Witness ==
    \E c \in CallIds :
        /\ calls[c].kind = "top_products" /\ calls[c].returned
        /\ calls[c].limit = 2 /\ Len(calls[c].items) = 2
        /\ calls[c].items[1].total_sold > calls[c].items[2].total_sold

\* C9: a valid request to the top-products endpoint against a working
\* storage engine is answered with the first `limit` groups; with Widget
\* sold 10 units for 100.00 and B sold 5 units for 50.00 in the window and
\* limit 1 the answer is exactly [{Widget, 10, 100.00}].
C9_TopProductsEndpointAnswers ==
    \A c \in CallIds :
        (calls[c].kind = "top_products" /\ calls[c].via = "http" /\ calls[c].pc = "done"
            /\ ValidTopRequest(calls[c].days, calls[c].limit)
            /\ calls[c].fetch # "failed")
        => /\ calls[c].status = 200
           /\ calls[c].returned
           /\ ({s.id : s \in db.sales} = {1, 5} /\ calls[c].days = 30 /\ calls[c].limit = 1)
                => calls[c].items =
                    <<[product |-> <<"Widget">>, total_sold |-> 10, revenue |-> 10000]>>

\* C10: a top-products call whose aggregate query failed ends with the
\* server error and its generic message, never with a returned list.
C10_QueryFailureIsAnError ==
    \A c \in CallIds :
        (calls[c].kind = "top_products" /\ calls[c].fetch = "failed")
        => /\ calls[c].pc \in {"close", "done"}
           /\ ~calls[c].returned
           /\ calls[c].status = 500
           /\ calls[c].exc = "HTTPException"
           /\ calls[c].detail = "Error fetching top products"

C10_Witness ==
    \E c \in CallIds :
        /\ calls[c].kind = "top_products" /\ calls[c].fetch = "failed"
        /\ calls[c].pc = "done" /\ calls[c].status = 500

====
